---------------------------- MODULE Spec2Model ----------------------------
(***************************************************************************)
(* falcom-sjis: a codec between Shift JIS bytes and Unicode scalar values.  *)
(*                                                                         *)
(* Characters are their Unicode scalar values, bytes are 0..255, an        *)
(* EncodedChar is the sequence of its one or two bytes (One([a]) = <<a>>,   *)
(* Two([a, b]) = <<a, b>>), Option::None of an EncodedChar is <<>>.         *)
(*                                                                         *)
(* The two .dat resources the build script reads are not part of the       *)
(* sources; utf8sjis_dat and sjisutf8_dat hold the entries that the tests   *)
(* and the documentation of the library state, every other cell being the  *)
(* invalid marker.                                                         *)
(***************************************************************************)
EXTENDS Integers, Sequences, FiniteSets, TLC

(* ------------------------------ bounds -------------------------------- *)

\* Longest text / byte string handed to the string functions.
MaxLen == 3

\* Number of decode_lossy(encode_lossy(..)) applications of the round trip.
Passes == 2

(* ---------------------------- characters ------------------------------ *)

KanaFirst == \hFF61
KanaLast == \hFF9F
InvalidMarker == \hFFFD
Interpunct == \h30FB

None == <<>>

\* The non-surrogate scalar values the unit tests enumerate.
TestScalars == (0 .. \hFFFF) \ (\hD800 .. \hDFFF)

(* ------------------------- raw mapping resources ---------------------- *)

\* utf8sjis.dat, in file order: <<scalar, k1, k2>>.
utf8sjis_dat ==
    << <<\h30FB, \h81, \h45>>,   \* interpunct
       <<\h222A, \h81, \hBE>>, <<\h2229, \h81, \hBF>>, <<\hFFE2, \h81, \hCA>>,
       <<\h2220, \h81, \hDA>>, <<\h22A5, \h81, \hDB>>, <<\h2261, \h81, \hDF>>,
       <<\h2252, \h81, \hE0>>, <<\h221A, \h81, \hE3>>, <<\h2235, \h81, \hE6>>,
       <<\h222B, \h81, \hE7>>,
       <<\h30A1, \h83, \h40>>, <<\h30B3, \h83, \h52>>, <<\h30D5, \h83, \h74>>,
       <<\h30E0, \h83, \h80>>, <<\h30E1, \h83, \h81>>, <<\h30EB, \h83, \h8B>>,
       <<\h2252, \h87, \h90>>, <<\h2261, \h87, \h91>>, <<\h222B, \h87, \h92>>,
       <<\h221A, \h87, \h95>>, <<\h22A5, \h87, \h96>>, <<\h2220, \h87, \h97>>,
       <<\h2235, \h87, \h9A>>, <<\h2229, \h87, \h9B>>, <<\h222A, \h87, \h9C>>,
       <<\h65E5, \h93, \hFA>>, <<\h672C, \h96, \h7B>>,
       <<\hFFE2, \hEE, \hF9>> >>

\* Entries build.rs appends after the scalars of sjisutf8.dat.
Padding == 188

\* Rows of scalars in sjisutf8.dat: with the padding they make up the
\* [[char; 94]; 94] that lib.rs includes.
RawRows == (94 * 94 - Padding) \div 94

\* The mapped cells of sjisutf8.dat: <<row, column, scalar>>, rows and columns
\* counted from 0 in the file's row-major order.
sjisutf8_cells ==
    { <<0, 5, \h30FB>>,
      <<1, 31, \h222A>>, <<1, 32, \h2229>>, <<1, 43, \hFFE2>>, <<1, 59, \h2220>>,
      <<1, 60, \h22A5>>, <<1, 64, \h2261>>, <<1, 65, \h2252>>, <<1, 68, \h221A>>,
      <<1, 71, \h2235>>, <<1, 72, \h222B>>,
      <<4, 0, \h30A1>>, <<4, 18, \h30B3>>, <<4, 52, \h30D5>>, <<4, 63, \h30E0>>,
      <<4, 64, \h30E1>>, <<4, 74, \h30EB>>,
      <<12, 79, \h2252>>, <<12, 80, \h2261>>, <<12, 81, \h222B>>, <<12, 84, \h221A>>,
      <<12, 85, \h22A5>>, <<12, 86, \h2220>>, <<12, 89, \h2235>>, <<12, 90, \h2229>>,
      <<12, 91, \h222A>>,
      <<37, 91, \h65E5>>, <<42, 59, \h672C>>,
      <<91, 90, \hFFE2>> }

\* sjisutf8.dat as the flat list of its scalars, indexed from 0.
sjisutf8_dat ==
    [i \in 0 .. (RawRows * 94 - 1) |->
        IF \E t \in sjisutf8_cells : t[1] * 94 + t[2] = i
        THEN (CHOOSE t \in sjisutf8_cells : t[1] * 94 + t[2] = i)[3]
        ELSE InvalidMarker]

(* --------------------------- build.rs: tables ------------------------- *)

\* The phf map: a scalar is entered once, with the pair of its first record.
UTF8_SJIS ==
    [c \in {utf8sjis_dat[i][1] : i \in DOMAIN utf8sjis_dat} |->
        LET first == CHOOSE i \in DOMAIN utf8sjis_dat :
                        /\ utf8sjis_dat[i][1] = c
                        /\ \A j \in DOMAIN utf8sjis_dat :
                              utf8sjis_dat[j][1] = c => i <= j
        IN  <<utf8sjis_dat[first][2], utf8sjis_dat[first][3]>>]

\* The Vec of build.rs after the padding loop, indexed from 0.
PaddedTable ==
    [i \in 0 .. (RawRows * 94 + Padding - 1) |->
        IF i < RawRows * 94 THEN sjisutf8_dat[i] ELSE Interpunct]

\* table.chunks(94), included as [[char; 94]; 94].
SJIS_UTF8 ==
    [r \in 0 .. 93 |-> [c \in 0 .. 93 |-> PaddedTable[r * 94 + c]]]

(* ------------------------------ lib.rs -------------------------------- *)

\* Mutation: the replacement is one trail byte off.
REPLACEMENT_other == <<\h81, \h44>>

\* EncodedChar::REPLACEMENT
REPLACEMENT == <<\h81, \h45>>

\* EncodedChar::into_iter: the bytes the iterator yields.
into_iter(enc) == enc

\* Mutation: the iterator of One keeps its filler byte.
into_iter_len_no_skip(enc) == 2

\* ExactSizeIterator::len of EncodedChar::into_iter.
into_iter_len(enc) == IF Len(enc) = 1 THEN 2 - 1 ELSE 2

\* Mutation: the kana block starts one byte early.
KanaByte_off_by_one(c) == ((c - KanaFirst) % 256) + \hA0

\* The half-width kana byte of encode_char: (char - KanaFirst) as u8 + 0xA1.
KanaByte(c) == ((c - KanaFirst) % 256) + \hA1

encode_char(c) ==
    IF c <= \h7F THEN <<c>>
    ELSE IF KanaFirst <= c /\ c <= KanaLast THEN <<KanaByte(c)>>
    ELSE IF c \in DOMAIN UTF8_SJIS THEN UTF8_SJIS[c]
    ELSE None

\* Mutation: 0x80 is taken for a lead byte.
LeadClass_lead_80(b1) ==
    IF b1 <= \h7F THEN "ascii"
    ELSE IF \hA1 <= b1 /\ b1 <= \hDF THEN "kana"
    ELSE IF \h80 <= b1 /\ b1 <= \h9F THEN "lead_lo"
    ELSE IF \hE0 <= b1 /\ b1 <= \hEF THEN "lead_hi"
    ELSE "invalid"

\* The first match of decode_char_from.
LeadClass(b1) ==
    IF b1 <= \h7F THEN "ascii"
    ELSE IF \hA1 <= b1 /\ b1 <= \hDF THEN "kana"
    ELSE IF \h81 <= b1 /\ b1 <= \h9F THEN "lead_lo"
    ELSE IF \hE0 <= b1 /\ b1 <= \hEF THEN "lead_hi"
    ELSE "invalid"

\* Mutation: the second lead range is joined one row early.
LeadSteps_1E(b1) ==
    IF \h81 <= b1 /\ b1 <= \h9F THEN <<b1 - \h81>>
    ELSE <<b1 - \hE0, b1 - \hE0 + \h1E>>

\* The u8 values computed for `a`, in order; the last one is `a`.
LeadSteps(b1) ==
    IF LeadClass(b1) = "lead_lo" THEN <<b1 - \h81>>
    ELSE <<b1 - \hE0, b1 - \hE0 + \h1F>>

\* The second match of decode_char_from.
TrailClass(b2) ==
    IF \h40 <= b2 /\ b2 <= \h7E THEN "trail_lo"
    ELSE IF \h80 <= b2 /\ b2 <= \hFC THEN "trail_hi"
    ELSE "invalid"

\* Mutations: the second trail range is joined one column early / late.
TrailSteps_3E(b2) ==
    IF \h40 <= b2 /\ b2 <= \h7E THEN <<b2 - \h40>>
    ELSE <<b2 - \h80, b2 - \h80 + \h3E>>

TrailSteps_40(b2) ==
    IF \h40 <= b2 /\ b2 <= \h7E THEN <<b2 - \h40>>
    ELSE <<b2 - \h80, b2 - \h80 + \h40>>

\* The u8 values computed for `b`, in order; the last one is `b`.
TrailSteps(b2) ==
    IF TrailClass(b2) = "trail_lo" THEN <<b2 - \h40>>
    ELSE <<b2 - \h80, b2 - \h80 + \h3F>>

Last(s) == s[Len(s)]

\* A result of decode_char_from / decode_char.  kind is "ok" (Ok(ch)), "err"
\* (Err(enc)), "panic" (the table index is out of bounds) or "none"
\* (decode_char on an empty iterator); asked tells whether
\* the b2 closure was called and taken how many bytes it yielded; steps are
\* the u8 values computed on the way, row and col the table index.
Result(kind, ch, enc, asked, taken, steps, row, col) ==
    [kind |-> kind, ch |-> ch, enc |-> enc, asked |-> asked, taken |-> taken,
     steps |-> steps, row |-> row, col |-> col]

NoResult == Result("none", 0, None, FALSE, 0, <<>>, -1, -1)

\* decode_char_from(b1, b2): rest is what the iterator behind the b2 closure
\* still holds.
decode_char_from(b1, rest) ==
    LET cls == LeadClass(b1) IN
    IF cls = "ascii" THEN Result("ok", b1, <<b1>>, FALSE, 0, <<>>, -1, -1)
    ELSE IF cls = "kana"
    THEN Result("ok", KanaFirst + (b1 - \hA1), <<b1>>, FALSE, 0, <<b1 - \hA1>>, -1, -1)
    ELSE IF cls = "invalid" THEN Result("err", 0, <<b1>>, FALSE, 0, <<>>, -1, -1)
    ELSE
    LET a == Last(LeadSteps(b1)) IN
    IF rest = <<>> THEN Result("err", 0, <<b1>>, TRUE, 0, LeadSteps(b1), -1, -1)
    ELSE
    LET b2 == Head(rest)
        enc == <<b1, b2>>
    IN
    IF TrailClass(b2) = "invalid"
    THEN Result("err", 0, enc, TRUE, 1, LeadSteps(b1), -1, -1)
    ELSE
    LET b == Last(TrailSteps(b2))
        steps == LeadSteps(b1) \o TrailSteps(b2)
        row == a * 2 + (b \div 94)
        col == b % 94
    IN
    IF row \notin 0 .. 93
    THEN Result("panic", 0, enc, TRUE, 1, steps, row, col)
    ELSE IF SJIS_UTF8[row][col] = InvalidMarker
    THEN Result("err", 0, enc, TRUE, 1, steps, row, col)
    ELSE Result("ok", SJIS_UTF8[row][col], enc, TRUE, 1, steps, row, col)

\* Mutation: the position counts characters, not UTF-8 bytes.
len_utf8_chars(c) == 1

\* char::len_utf8, the step of str::char_indices.
len_utf8(c) ==
    IF c < \h80 THEN 1 ELSE IF c < \h800 THEN 2 ELSE IF c < \h10000 THEN 3 ELSE 4


(* --------------------------- the state machine ------------------------ *)

\* Bytes and characters the string functions are run on.
ByteAlphabet == {\h32, \h40, \h45, \h80, \h81, \h83, \hB1, \hEE, \hEF, \hFF}
CharAlphabet == {\h32, \hE9, \h2082, \h30FB, \h65E5, \hFF71, \hFFFD, \h1F600}

RECURSIVE SeqsUpTo(_, _)
SeqsUpTo(S, n) ==
    IF n = 0 THEN {<<>>}
    ELSE LET shorter == SeqsUpTo(S, n - 1)
         IN  shorter \cup {Append(s, x) : s \in {t \in shorter : Len(t) = n - 1}, x \in S}

Bytes == 0 .. 255

\* The iterators handed to decode_char: every source of at most two bytes,
\* and longer ones over ByteAlphabet.
CharSources ==
    {<<>>} \cup {<<x>> : x \in Bytes} \cup {<<x, y>> : x \in Bytes, y \in Bytes}
    \cup {s \in SeqsUpTo(ByteAlphabet, MaxLen) : Len(s) > 2}

VARIABLES
    call,    \* the entry point being exercised
    pc,      \* the function that runs next, or "done"
    text,    \* the &str argument of the scenario
    str,     \* the &str argument of the running encode / encode_lossy
    input,   \* the bytes being decoded (the iterator's underlying slice)
    idx,     \* characters of str already taken by chars() / char_indices()
    pos,     \* encode: UTF-8 offset of the next character;
             \* decode: bytes taken from the iterator so far
    out,     \* the String being built
    outb,    \* the Vec<u8> being built (or the EncodedChar of encode_char)
    last,    \* the result of the latest decode_char_from / decode_char
    res,     \* the value returned by encode / decode / the test body
    passes   \* completed decode_lossy(encode_lossy(..)) applications

vars == <<call, pc, text, str, input, idx, pos, out, outb, last, res, passes>>

NoRes == [kind |-> "none", pos |-> 0, enc |-> None, bytes |-> <<>>]
OkRes(bytes) == [kind |-> "ok", pos |-> 0, enc |-> None, bytes |-> bytes]
ErrRes(p, enc) == [kind |-> "err", pos |-> p, enc |-> enc, bytes |-> <<>>]
PanicRes == [kind |-> "panic", pos |-> 0, enc |-> None, bytes |-> <<>>]

Start(c, p, t, i) ==
    /\ call = c /\ pc = p /\ text = t /\ str = t /\ input = i
    /\ idx = 0 /\ pos = 0 /\ out = <<>> /\ outb = <<>>
    /\ last = NoResult /\ res = NoRes /\ passes = 0

Init ==
    \/ \E c \in TestScalars : Start("encode_then_decode", "encode_char", <<c>>, <<>>)
    \/ \E i \in CharSources : Start("decode_then_encode", "decode_char", <<>>, i)
    \/ \E t \in SeqsUpTo(CharAlphabet, MaxLen) : Start("test_encode", "encode", t, <<>>)
    \/ \E i \in SeqsUpTo(ByteAlphabet, MaxLen) :
          \/ Start("decode", "decode", <<>>, i)
          \/ Start("decode_lossy", "decode_lossy", <<>>, i)

\* encode_then_decode: encode_char(char), and the iterator of its bytes.
EncodeChar ==
    /\ pc = "encode_char"
    /\ LET enc == encode_char(text[1]) IN
       /\ outb' = enc
       /\ input' = IF enc = None THEN <<>> ELSE into_iter(enc)
       /\ pc' = IF enc = None THEN "done" ELSE "decode_char"
    /\ UNCHANGED <<call, text, str, idx, pos, out, last, res, passes>>

\* decode_char(iter): iter.next().map(|b1| decode_char_from(b1, || iter.next()))
DecodeChar ==
    /\ pc = "decode_char"
    /\ LET r == IF input = <<>> THEN NoResult
                ELSE decode_char_from(Head(input), Tail(input))
       IN
       /\ last' = r
       /\ pos' = IF input = <<>> THEN 0 ELSE 1 + r.taken
       /\ pc' = IF call = "decode_then_encode" /\ r.kind = "ok"
                THEN "re_encode" ELSE "done"
    /\ UNCHANGED <<call, text, str, input, idx, out, outb, res, passes>>

\* decode_then_encode: encode_char(dec).unwrap().into_iter().collect()
ReEncode ==
    /\ pc = "re_encode"
    /\ LET enc == encode_char(last.ch) IN
       /\ outb' = IF enc = None THEN <<>> ELSE into_iter(enc)
       /\ res' = IF enc = None THEN PanicRes ELSE OkRes(<<>>)
    /\ pc' = "done"
    /\ UNCHANGED <<call, text, str, input, idx, pos, out, last, passes>>

\* encode: one turn of `for (pos, char) in str.char_indices()`.
EncodeIter ==
    /\ pc = "encode" /\ idx < Len(str)
    /\ LET c == str[idx + 1]
           enc == encode_char(c)
       IN
       IF enc # None
       THEN /\ outb' = outb \o into_iter(enc)
            /\ idx' = idx + 1
            /\ pos' = pos + len_utf8(c)
            /\ UNCHANGED <<pc, res>>
       ELSE /\ res' = ErrRes(pos, None)
            /\ pc' = "encode_lossy"
            /\ idx' = 0 /\ pos' = 0 /\ outb' = <<>>
    /\ UNCHANGED <<call, text, str, input, out, last, passes>>

\* encode: the loop is over, Ok(out).
EncodeEnd ==
    /\ pc = "encode" /\ idx = Len(str)
    /\ res' = OkRes(outb)
    /\ pc' = "encode_lossy"
    /\ idx' = 0 /\ pos' = 0 /\ outb' = <<>>
    /\ UNCHANGED <<call, text, str, input, out, last, passes>>

\* encode_lossy: one turn of `for char in str.chars()`.
EncodeLossyIter ==
    /\ pc = "encode_lossy" /\ idx < Len(str)
    /\ LET enc == encode_char(str[idx + 1]) IN
       outb' = outb \o (IF enc # None THEN into_iter(enc) ELSE into_iter(REPLACEMENT))
    /\ idx' = idx + 1
    /\ UNCHANGED <<call, pc, text, str, input, pos, out, last, res, passes>>

\* encode_lossy returns out; test_encode hands it to decode_lossy.
EncodeLossyEnd ==
    /\ pc = "encode_lossy" /\ idx = Len(str)
    /\ input' = outb
    /\ pos' = 0 /\ out' = <<>> /\ last' = NoResult
    /\ pc' = "decode_lossy"
    /\ UNCHANGED <<call, text, str, idx, outb, res, passes>>

\* decode: one turn of `while let Some(b1) = iter.next()`; the inspect
\* adaptor counts in pos every byte the iterator yields.
DecodeIter ==
    /\ pc = "decode" /\ pos < Len(input)
    /\ LET r == decode_char_from(input[pos + 1], SubSeq(input, pos + 2, Len(input)))
           taken == pos + 1 + r.taken
       IN
       /\ last' = r
       /\ pos' = taken
       /\ IF r.kind = "ok"
          THEN /\ out' = Append(out, r.ch)
               /\ UNCHANGED <<pc, res>>
          ELSE /\ res' = IF r.kind = "panic" THEN PanicRes
                        ELSE ErrRes(taken - into_iter_len(r.enc), r.enc)
               /\ pc' = "done"
               /\ UNCHANGED out
    /\ UNCHANGED <<call, text, str, input, idx, outb, passes>>

\* decode: the iterator is exhausted, Ok(out).
DecodeEnd ==
    /\ pc = "decode" /\ pos = Len(input)
    /\ res' = OkRes(<<>>)
    /\ pc' = "done"
    /\ UNCHANGED <<call, text, str, input, idx, pos, out, outb, last, passes>>

\* decode_lossy: one turn of `while let Some(b1) = iter.next()`.
DecodeLossyIter ==
    /\ pc = "decode_lossy" /\ pos < Len(input)
    /\ LET r == decode_char_from(input[pos + 1], SubSeq(input, pos + 2, Len(input)))
       IN
       /\ last' = r
       /\ pos' = pos + 1 + r.taken
       /\ IF r.kind = "panic"
          THEN /\ res' = PanicRes /\ pc' = "done" /\ UNCHANGED out
          ELSE /\ out' = Append(out, IF r.kind = "ok" THEN r.ch ELSE InvalidMarker)
               /\ UNCHANGED <<pc, res>>
    /\ UNCHANGED <<call, text, str, input, idx, outb, passes>>

\* decode_lossy returns out; the round trip is applied again to its result.
DecodeLossyEnd ==
    /\ pc = "decode_lossy" /\ pos = Len(input)
    /\ IF call = "test_encode" /\ passes + 1 < Passes
       THEN /\ passes' = passes + 1
            /\ str' = out
            /\ idx' = 0 /\ outb' = <<>>
            /\ pc' = "encode_lossy"
       ELSE /\ passes' = IF call = "test_encode" THEN passes + 1 ELSE passes
            /\ pc' = "done"
            /\ UNCHANGED <<str, idx, outb>>
    /\ UNCHANGED <<call, text, input, pos, out, last, res>>

Next ==
    \/ EncodeChar
    \/ DecodeChar
    \/ ReEncode
    \/ EncodeIter
    \/ EncodeEnd
    \/ EncodeLossyIter
    \/ EncodeLossyEnd
    \/ DecodeIter
    \/ DecodeEnd
    \/ DecodeLossyIter
    \/ DecodeLossyEnd

Spec == Init /\ [][Next]_vars

(* ------------------------------- claims ------------------------------- *)

\* Byte classes, as the documentation of the encoding states them.
SingleByte(b) == b \in (\h00 .. \h7F) \cup (\hA1 .. \hDF)
ValidLead(b) == b \in (\h81 .. \h9F) \cup (\hE0 .. \hEF)
InvalidLead(b) == b \in {\h80, \hA0} \cup (\hF0 .. \hFF)
ValidTrail(b) == b \in (\h40 .. \h7E) \cup (\h80 .. \hFC)

\* The byte pairs decode_then_encode exempts (lib.rs, `duplicates`).
Duplicates ==
    { <<\h87, \h90>>, <<\h87, \h91>>, <<\h87, \h92>>, <<\h87, \h95>>, <<\h87, \h96>>,
      <<\h87, \h97>>, <<\h87, \h9A>>, <<\h87, \h9B>>, <<\h87, \h9C>>, <<\hEE, \hF9>> }

\* C1: for every scalar c that encode_char encodes, decode_char over the bytes
\* of the EncodedChar returns Some(Ok(c)).
C1_EncodeThenDecode ==
    (call = "encode_then_decode" /\ pc = "done" /\ outb # None)
        => (last.kind = "ok" /\ last.ch = text[1])

\* A Forward Table hit has gone through encode_char and decode_char.
C1_Witness ==
    /\ call = "encode_then_decode" /\ pc = "done"
    /\ text = <<\h65E5>> /\ outb = <<\h93, \hFA>> /\ last.ch = \h65E5

\* C2: every two-byte input decode_char accepts re-encodes to the bytes consumed,
\* unless it is one of the ten duplicate pairs.
C2_DecodeThenEncode ==
    (call = "decode_then_encode" /\ pc = "done" /\ Len(input) = 2 /\ last.kind = "ok")
        => /\ res.kind = "ok"
           /\ outb = SubSeq(input, 1, pos) \/ input \in Duplicates

\* The Reverse Table has no character for the pair: its cell is found by the
\* row and column of the pair in the 94 x 94 plane, two rows to a lead byte,
\* the second one from trail byte 0x9F on.
Unmapped(lead, trail) ==
    LET row == 2 * (IF lead < \hE0 THEN lead - \h81 ELSE lead - \hC1)
               + (IF trail < \h9F THEN 0 ELSE 1)
        col == IF trail < \h7F THEN trail - \h40
               ELSE IF trail < \h9F THEN trail - \h41
               ELSE trail - \h9F
    IN  SJIS_UTF8[row][col] = InvalidMarker

\* The first invalid sequence of a byte string at or after offset p, as
\* Err((offset, bytes)), or "none".
RECURSIVE FirstInvalid(_, _)
FirstInvalid(in, p) ==
    IF p >= Len(in) THEN NoRes
    ELSE LET b1 == in[p + 1] IN
         IF SingleByte(b1) THEN FirstInvalid(in, p + 1)
         ELSE IF InvalidLead(b1) \/ p + 1 = Len(in) THEN ErrRes(p, <<b1>>)
         ELSE IF ~ValidTrail(in[p + 2]) \/ Unmapped(b1, in[p + 2])
              THEN ErrRes(p, <<b1, in[p + 2]>>)
              ELSE FirstInvalid(in, p + 2)

\* C3: decode fails exactly when the input holds an invalid sequence, with the
\* offset of the first byte of the first one and its bytes: One for an invalid
\* or a truncated lead, Two for a bad trail or an unmapped pair.
C3_DecodeError ==
    (call = "decode" /\ pc = "done")
        => IF FirstInvalid(input, 0).kind = "none"
           THEN res.kind = "ok"
           ELSE res = FirstInvalid(input, 0)

\* decode has failed on an unmapped pair after a decoded byte.
C3_Witness ==
    /\ call = "decode" /\ pc = "done"
    /\ input = <<\h32, \hEE, \hEE>> /\ res = ErrRes(1, <<\hEE, \hEE>>)

\* C4: on an invalid sequence decode_lossy emits one U+FFFD and advances by
\* exactly one byte.
C4_LossyAdvance ==
    [][(pc = "decode_lossy" /\ pos < Len(input) /\ last'.kind = "err")
          => (pos' = pos + 1 /\ out' = Append(out, InvalidMarker))]_vars

\* UTF-8 length of a scalar value.
Utf8Width(c) ==
    IF c <= \h7F THEN 1 ELSE IF c <= \h7FF THEN 2 ELSE IF c <= \hFFFF THEN 3 ELSE 4

RECURSIVE Utf8Bytes(_)
Utf8Bytes(t) == IF t = <<>> THEN 0 ELSE Utf8Width(Head(t)) + Utf8Bytes(Tail(t))

\* Index of the first character encode_char rejects, or 0.
FirstUnencodable(t) ==
    IF \E i \in DOMAIN t : encode_char(t[i]) = None
    THEN CHOOSE i \in DOMAIN t :
            /\ encode_char(t[i]) = None
            /\ \A j \in 1 .. (i - 1) : encode_char(t[j]) # None
    ELSE 0

RECURSIVE Concat(_, _)
Concat(t, fallback) ==
    IF t = <<>> THEN <<>>
    ELSE (IF encode_char(Head(t)) # None THEN encode_char(Head(t)) ELSE fallback)
         \o Concat(Tail(t), fallback)

\* C5: encode returns Err(p) exactly when a character is not encodable, p the
\* UTF-8 offset of the first one; otherwise Ok of the concatenated encodings.
C5_EncodeError ==
    (call = "test_encode" /\ res.kind # "none")
        => IF FirstUnencodable(text) = 0
           THEN res = OkRes(Concat(text, <<>>))
           ELSE res = ErrRes(Utf8Bytes(SubSeq(text, 1, FirstUnencodable(text) - 1)), None)

\* encode has failed behind a three-byte and a one-byte character: offset 4,
\* with three bytes of output.
C5_Witness ==
    /\ call = "test_encode" /\ text = <<\h65E5, \h32, \h2082>>
    /\ res = ErrRes(4, None)

\* C6: encode_lossy returns the concatenation of the encodings, 81 45 standing
\* for every unencodable character; it is the Ok value of encode when encode
\* succeeds, and decodes back with the interpunct, which encode_char maps to
\* 81 45, at every unencodable character.
C6_EncodeLossy ==
    /\ (call = "test_encode" /\ passes = 0 /\ pc = "decode_lossy")
          => /\ input = Concat(text, <<\h81, \h45>>)
             /\ res.kind = "ok" => input = res.bytes
    /\ (call = "test_encode" /\ passes = 1)
          => /\ Len(str) = Len(text)
             /\ \A i \in DOMAIN text : encode_char(text[i]) = None => str[i] = Interpunct
             /\ encode_char(Interpunct) = <<\h81, \h45>>

\* A text with an unencodable character has been encoded and decoded lossily.
C6_Witness ==
    /\ call = "test_encode" /\ passes = 1
    /\ text = <<\h65E5, \h2082, \h32>> /\ str = <<\h65E5, Interpunct, \h32>>

\* C7: with t = decode_lossy(encode_lossy(s)), decode_lossy(encode_lossy(t)) = t.
C7_LossyFixedPoint ==
    (call = "test_encode" /\ pc = "done") => out = str

\* The round trip has been applied to its own result, which differs from s.
C7_Witness ==
    /\ call = "test_encode" /\ pc = "done" /\ passes = Passes
    /\ text = <<\hFF71, \hE9>> /\ str = <<\hFF71, Interpunct>> /\ out = str

\* C8: decode_char consumes nothing from an empty source; else one byte, the
\* second never asked for, on an ASCII, kana or invalid first byte, and two on
\* a lead byte followed by a byte; an Err carries as many bytes as were consumed.
C8_Consumption ==
    (call = "decode_then_encode" /\ pc # "decode_char")
        => IF input = <<>> THEN last.kind = "none" /\ pos = 0
           ELSE /\ last.kind \in {"ok", "err"}
                /\ pos \in {1, 2}
                /\ (SingleByte(input[1]) \/ InvalidLead(input[1]))
                      => (pos = 1 /\ ~last.asked)
                /\ (ValidLead(input[1]) /\ Len(input) >= 2) => pos = 2
                /\ last.kind = "err" => last.enc = SubSeq(input, 1, pos)

\* A failed pair in a longer source: two bytes consumed, the third left.
C8_Witness ==
    /\ call = "decode_then_encode" /\ pc = "done"
    /\ input = <<\h81, \h32, \h32>> /\ pos = 2 /\ last.kind = "err"

\* The byte pair of a Reverse Table cell.
PairOfCell(row, col) ==
    LET a == row \div 2
        b == (row % 2) * 94 + col
    IN  << IF a < 31 THEN a + \h81 ELSE a - 31 + \hE0,
           IF b < 63 THEN b + \h40 ELSE b - 63 + \h80 >>

\* C9: for a valid lead and a valid trail byte the table index is computed
\* without u8 underflow or overflow, row and column lie in 0..93, and distinct
\* pairs have distinct cells.
C9_TableIndex ==
    (/\ call = "decode_then_encode" /\ pc # "decode_char" /\ Len(input) >= 2
     /\ ValidLead(input[1]) /\ ValidTrail(input[2]))
        => /\ last.row \in 0 .. 93 /\ last.col \in 0 .. 93
           /\ \A i \in DOMAIN last.steps : last.steps[i] \in 0 .. 255
           /\ PairOfCell(last.row, last.col) = <<input[1], input[2]>>

\* The last cell of the table has been indexed.
C9_Witness ==
    /\ call = "decode_then_encode" /\ input = <<\hEF, \hFC>>
    /\ last.row = 93 /\ last.col = 93

\* The rows of the table that hold a padding entry.
PaddedRows ==
    {i \div 94 : i \in {j \in DOMAIN PaddedTable : j >= RawRows * 94}}

=============================================================================
